---- MODULE Spec2Model ----
(***************************************************************************)
(* potatodb (src/src/lib.rs): an in-memory record store with a            *)
(* programmatic API and a small SQL-like text interface.                   *)
(*                                                                         *)
(* Strings are modelled as sequences of one-character strings, so that    *)
(* tokenisation, case folding, trimming and string ordering are computed  *)
(* the way the code computes them.  Vec positions are 0-based as in the   *)
(* code; a Vec `v` is a TLA+ sequence and `v[i]` of the code is v[i+1].   *)
(* A HashMap is a function whose DOMAIN is its key set.                    *)
(***************************************************************************)
EXTENDS Integers, Sequences, FiniteSets, TLC

VARIABLES
    tables,   \* Database.tables : table name -> Table
    call,     \* the last operation invoked on the database, with its arguments
    result    \* what that operation returned (Ok / Err / a panic)

vars == <<tables, call, result>>

-----------------------------------------------------------------------------
(* Bounds of the model *)

\* programmatic ids are drawn from 1..MaxId
MaxId == 2
\* inserts are offered only while the database holds fewer records than this
MaxRecords == 2

-----------------------------------------------------------------------------
(* Characters and strings *)

LowerCase ==
    << "a","b","c","d","e","f","g","h","i","j","k","l","m",
       "n","o","p","q","r","s","t","u","v","w","x","y","z" >>

UpperCase ==
    << "A","B","C","D","E","F","G","H","I","J","K","L","M",
       "N","O","P","Q","R","S","T","U","V","W","X","Y","Z" >>

\* the characters the model uses, in code point order (String's Ord is byte-wise)
CodePointOrder ==
    << " ", "!", "'", "(", ")", "*", ",",
       "0","1","2","3","4","5","6","7","8","9", "<", "=", ">" >>
    \o UpperCase \o LowerCase \o << "~" >>

CharCode(c) == CHOOSE i \in 1..Len(CodePointOrder) : CodePointOrder[i] = c

\* an order that puts the shorter string first, as the order of the numbers
\* written by digit strings does
StrLessShorterFirst(s, t) ==
    IF Len(s) # Len(t) THEN Len(s) < Len(t)
    ELSE \E k \in 1..Len(s) :
            /\ \A j \in 1..(k - 1) : s[j] = t[j]
            /\ CharCode(s[k]) < CharCode(t[k])

\* str < str of the standard library: lexicographic on the bytes
RECURSIVE StrLess(_, _)
StrLess(s, t) ==
    IF t = <<>> THEN FALSE
    ELSE IF s = <<>> THEN TRUE
    ELSE IF s[1] = t[1] THEN StrLess(Tail(s), Tail(t))
    ELSE CharCode(s[1]) < CharCode(t[1])

ToUpperChar(c) ==
    IF \E i \in 1..Len(LowerCase) : LowerCase[i] = c
    THEN UpperCase[CHOOSE i \in 1..Len(LowerCase) : LowerCase[i] = c]
    ELSE c

to_uppercase(s) == [i \in 1..Len(s) |-> ToUpperChar(s[i])]

IsWhitespace(c) == c = " "

RECURSIVE SplitFrom(_, _, _)
SplitFrom(s, cur, acc) ==
    IF s = <<>> THEN (IF cur = <<>> THEN acc ELSE Append(acc, cur))
    ELSE IF IsWhitespace(s[1])
         THEN SplitFrom(Tail(s), <<>>, IF cur = <<>> THEN acc ELSE Append(acc, cur))
         ELSE SplitFrom(Tail(s), Append(cur, s[1]), acc)

\* sql.split_whitespace().collect()
split_whitespace(sql) == SplitFrom(sql, <<>>, <<>>)

IsTrimChar(c) == c = "(" \/ c = "," \/ c = ")"

RECURSIVE TrimStart(_)
TrimStart(s) ==
    IF s # <<>> /\ IsTrimChar(s[1]) THEN TrimStart(Tail(s)) ELSE s

RECURSIVE TrimEnd(_)
TrimEnd(s) ==
    IF s # <<>> /\ IsTrimChar(s[Len(s)])
    THEN TrimEnd(SubSeq(s, 1, Len(s) - 1))
    ELSE s

\* s.trim_matches(|c| c == '(' || c == ',' || c == ')')
trim_matches(s) == TrimEnd(TrimStart(s))

-----------------------------------------------------------------------------
(* Vec and HashMap helpers *)

\* Vec::remove(p): the element at 0-based position p is taken out, the rest shift left
VecRemove(v, p) == SubSeq(v, 1, p) \o SubSeq(v, p + 2, Len(v))

\* HashMap::insert(k, v): adds the key or overwrites its value
MapInsert(m, k, v) == [x \in DOMAIN m \cup {k} |-> IF x = k THEN v ELSE m[x]]

\* HashMap::remove(k), as far as the map is concerned
MapRemove(m, k) == [x \in DOMAIN m \ {k} |-> m[x]]

\* HashMap::new()
EmptyMap == [x \in {} |-> x]

-----------------------------------------------------------------------------
(* Results: Result<T, String>; a panic is the third outcome of a call *)

Ok(v) == [kind |-> "Ok", err |-> "", value |-> v]

\* Err(message); `e` names the class of the message
Err(e) == [kind |-> "Err", err |-> e, value |-> <<>>]

Panic == [kind |-> "Panic", err |-> "", value |-> <<>>]

-----------------------------------------------------------------------------
(* The programmatic interface *)

Record(id, data) == [id |-> id, data |-> data]

NewTable(name) == [name |-> name, records |-> <<>>, index |-> EmptyMap]

\* a faulty create_table: HashMap::insert without the contains_key test, which
\* replaces an existing table by an empty one
create_table_reset(tbls, name) ==
    [tables |-> MapInsert(tbls, name, NewTable(name)), result |-> Ok(<<>>)]

create_table(tbls, name) ==
    IF name \in DOMAIN tbls
    THEN [tables |-> tbls, result |-> Err("TableAlreadyExists")]
    ELSE [tables |-> MapInsert(tbls, name, NewTable(name)), result |-> Ok(<<>>)]

\* a faulty insert: the position is read after the push (records.len(), not len - 1)
insert_position_after_push(tbls, table_name, id, data) ==
    IF table_name \in DOMAIN tbls
    THEN LET table == tbls[table_name] IN
         IF id \in DOMAIN table.index
         THEN [tables |-> tbls, result |-> Err("RecordAlreadyExists")]
         ELSE LET t2 == [table EXCEPT
                            !.records = Append(@, Record(id, data)),
                            !.index = MapInsert(@, id, Len(table.records) + 1)]
              IN [tables |-> [tbls EXCEPT ![table_name] = t2], result |-> Ok(<<>>)]
    ELSE [tables |-> tbls, result |-> Err("TableNotFound")]

\* a faulty insert: no test for an indexed id, the record is pushed and the index
\* entry overwritten
insert_unchecked(tbls, table_name, id, data) ==
    IF table_name \in DOMAIN tbls
    THEN LET table == tbls[table_name]
             t2 == [table EXCEPT
                       !.records = Append(@, Record(id, data)),
                       !.index = MapInsert(@, id, Len(table.records))]
         IN [tables |-> [tbls EXCEPT ![table_name] = t2], result |-> Ok(<<>>)]
    ELSE [tables |-> tbls, result |-> Err("TableNotFound")]

\* a faulty insert: the record is put in front of the stored records
insert_front(tbls, table_name, id, data) ==
    IF table_name \in DOMAIN tbls
    THEN LET table == tbls[table_name] IN
         IF id \in DOMAIN table.index
         THEN [tables |-> tbls, result |-> Err("RecordAlreadyExists")]
         ELSE LET t2 == [table EXCEPT
                            !.records = << Record(id, data) >> \o @,
                            !.index = MapInsert([k \in DOMAIN @ |-> @[k] + 1], id, 0)]
              IN [tables |-> [tbls EXCEPT ![table_name] = t2], result |-> Ok(<<>>)]
    ELSE [tables |-> tbls, result |-> Err("TableNotFound")]


insert(tbls, table_name, id, data) ==
    IF table_name \in DOMAIN tbls
    THEN LET table == tbls[table_name] IN
         IF id \in DOMAIN table.index
         THEN [tables |-> tbls, result |-> Err("RecordAlreadyExists")]
         ELSE LET index == Len(table.records)
                  t2 == [table EXCEPT
                            !.records = Append(@, Record(id, data)),
                            !.index = MapInsert(@, id, index)]
              IN [tables |-> [tbls EXCEPT ![table_name] = t2], result |-> Ok(<<>>)]
    ELSE [tables |-> tbls, result |-> Err("TableNotFound")]

\* Ok(Some(&record)) is Ok(<<record>>), Ok(None) is Ok(<<>>);
\* table.records[index] panics when index is out of bounds
get(tbls, table_name, id) ==
    IF table_name \in DOMAIN tbls
    THEN LET table == tbls[table_name] IN
         IF id \in DOMAIN table.index
         THEN IF table.index[id] < Len(table.records)
              THEN [tables |-> tbls, result |-> Ok(<<table.records[table.index[id] + 1]>>)]
              ELSE [tables |-> tbls, result |-> Panic]
         ELSE [tables |-> tbls, result |-> Ok(<<>>)]
    ELSE [tables |-> tbls, result |-> Err("TableNotFound")]

get_all(tbls, table_name) ==
    IF table_name \in DOMAIN tbls
    THEN [tables |-> tbls, result |-> Ok(tbls[table_name].records)]
    ELSE [tables |-> tbls, result |-> Err("TableNotFound")]

\* a faulty update: the new columns are merged into the old mapping
update_merge(tbls, table_name, id, data) ==
    IF table_name \in DOMAIN tbls
    THEN LET table == tbls[table_name] IN
         IF id \in DOMAIN table.index
         THEN LET index == table.index[id] IN
              IF index < Len(table.records)
              THEN [tables |-> [tbls EXCEPT ![table_name].records[index + 1].data =
                                    [c \in DOMAIN @ \cup DOMAIN data |->
                                        IF c \in DOMAIN data THEN data[c] ELSE @[c]]],
                    result |-> Ok(<<>>)]
              ELSE [tables |-> tbls, result |-> Panic]
         ELSE [tables |-> tbls, result |-> Err("RecordNotFound")]
    ELSE [tables |-> tbls, result |-> Err("TableNotFound")]

\* a faulty update: an id that is not indexed is inserted instead of refused
update_upsert(tbls, table_name, id, data) ==
    IF table_name \in DOMAIN tbls
    THEN LET table == tbls[table_name] IN
         IF id \in DOMAIN table.index
         THEN LET index == table.index[id] IN
              IF index < Len(table.records)
              THEN [tables |-> [tbls EXCEPT ![table_name].records[index + 1].data = data],
                    result |-> Ok(<<>>)]
              ELSE [tables |-> tbls, result |-> Panic]
         ELSE [tables |-> [tbls EXCEPT ![table_name] =
                              [table EXCEPT !.records = Append(@, Record(id, data)),
                                            !.index = MapInsert(@, id, Len(table.records))]],
               result |-> Ok(<<>>)]
    ELSE [tables |-> tbls, result |-> Err("TableNotFound")]

update(tbls, table_name, id, data) ==
    IF table_name \in DOMAIN tbls
    THEN LET table == tbls[table_name] IN
         IF id \in DOMAIN table.index
         THEN LET index == table.index[id] IN
              IF index < Len(table.records)
              THEN [tables |-> [tbls EXCEPT ![table_name].records[index + 1].data = data],
                    result |-> Ok(<<>>)]
              ELSE [tables |-> tbls, result |-> Panic]
         ELSE [tables |-> tbls, result |-> Err("RecordNotFound")]
    ELSE [tables |-> tbls, result |-> Err("TableNotFound")]

\* a faulty compaction: the positions after the removed one are left as they were
ShiftIndexSkipped(index, removed) == index

\* the loop of lines 129-133 (and 299-303): every position after the removed one moves down
ShiftIndex(index, removed) ==
    [k \in DOMAIN index |-> IF index[k] > removed THEN index[k] - 1 ELSE index[k]]

\* a faulty delete: the index entry is removed and the record stays stored
delete_index_only(tbls, table_name, id) ==
    IF table_name \in DOMAIN tbls
    THEN IF id \in DOMAIN tbls[table_name].index
         THEN [tables |-> [tbls EXCEPT ![table_name].index = MapRemove(@, id)],
               result |-> Ok(<<>>)]
         ELSE [tables |-> tbls, result |-> Err("RecordNotFound")]
    ELSE [tables |-> tbls, result |-> Err("TableNotFound")]

\* index.remove(&id) has happened when records.remove(index) panics
delete(tbls, table_name, id) ==
    IF table_name \in DOMAIN tbls
    THEN LET table == tbls[table_name] IN
         IF id \in DOMAIN table.index
         THEN LET index == table.index[id]
                  rest == MapRemove(table.index, id)
              IN IF index < Len(table.records)
                 THEN [tables |-> [tbls EXCEPT ![table_name] =
                                      [table EXCEPT !.records = VecRemove(@, index),
                                                    !.index = ShiftIndex(rest, index)]],
                       result |-> Ok(<<>>)]
                 ELSE [tables |-> [tbls EXCEPT ![table_name].index = rest],
                       result |-> Panic]
         ELSE [tables |-> tbls, result |-> Err("RecordNotFound")]
    ELSE [tables |-> tbls, result |-> Err("TableNotFound")]

-----------------------------------------------------------------------------
(* Conditions *)

\* Option<Condition>::None
NoCondition == [tag |-> "None"]

Comparison(tag, col, val) == [tag |-> tag, col |-> col, val |-> val]

Combined(tag, left, right) == [tag |-> tag, left |-> left, right |-> right]

RECURSIVE evaluate_condition(_, _)
evaluate_condition(record, condition) ==
    LET data == record.data
        has(col) == col \in DOMAIN data
    IN CASE condition.tag = "None" -> TRUE
         [] condition.tag = "Equals" ->
                IF has(condition.col) THEN data[condition.col] = condition.val ELSE FALSE
         [] condition.tag = "NotEquals" ->
                IF has(condition.col) THEN data[condition.col] # condition.val ELSE TRUE
         [] condition.tag = "GreaterThan" ->
                IF has(condition.col) THEN StrLess(condition.val, data[condition.col]) ELSE FALSE
         [] condition.tag = "LessThan" ->
                IF has(condition.col) THEN StrLess(data[condition.col], condition.val) ELSE FALSE
         [] condition.tag = "And" ->
                evaluate_condition(record, condition.left)
                    /\ evaluate_condition(record, condition.right)
         [] condition.tag = "Or" ->
                evaluate_condition(record, condition.left)
                    \/ evaluate_condition(record, condition.right)

-----------------------------------------------------------------------------
(* The statement parser *)

kwSELECT == << "S","E","L","E","C","T" >>
kwINSERT == << "I","N","S","E","R","T" >>
kwUPDATE == << "U","P","D","A","T","E" >>
kwDELETE == << "D","E","L","E","T","E" >>
kwFROM   == << "F","R","O","M" >>
kwINTO   == << "I","N","T","O" >>
kwVALUES == << "V","A","L","U","E","S" >>
kwSET    == << "S","E","T" >>
kwWHERE  == << "W","H","E","R","E" >>
kwAND    == << "A","N","D" >>
kwOR     == << "O","R" >>

\* tokens.iter().position(|&r| r.to_uppercase() == kw): the first such 0-based
\* position, and -1 for None
position(tokens, kw) ==
    LET hits == {i \in 1..Len(tokens) : to_uppercase(tokens[i]) = kw}
    IN IF hits = {} THEN -1
       ELSE (CHOOSE i \in hits : \A j \in hits : i <= j) - 1

\* &tokens[from..to] with 0-based bounds (the caller has checked from <= to <= len)
Slice(tokens, from, to) == SubSeq(tokens, from + 1, to)

\* conditions.into_iter().reduce(|acc, item| And(acc, item)): None when empty
RECURSIVE FoldAnd(_, _)
FoldAnd(acc, conditions) ==
    IF conditions = <<>> THEN acc
    ELSE FoldAnd(Combined("And", acc, Head(conditions)), Tail(conditions))

ReduceAnd(conditions) ==
    IF conditions = <<>> THEN [kind |-> "Ok", cond |-> NoCondition]
    ELSE [kind |-> "Ok", cond |-> FoldAnd(Head(conditions), Tail(conditions))]

\* the comparison a (column, operator, value) triple stands for; "None" for an
\* operator that is not one of = != > <
TripleCondition(column, operator, value) ==
    CASE operator = << "=" >>      -> Comparison("Equals", column, value)
      [] operator = << "!", "=" >> -> Comparison("NotEquals", column, value)
      [] operator = << ">" >>      -> Comparison("GreaterThan", column, value)
      [] operator = << "<" >>      -> Comparison("LessThan", column, value)
      [] OTHER                     -> NoCondition

\* The while loop of parse_where_clause from position i (0-based) with the
\* conditions collected so far.  The result is [kind, cond]: kind "Ok" with the
\* Option<Condition> (NoCondition for None), or kind "Panic" for the unwrap of
\* None at line 236.
RECURSIVE WhereLoop(_, _, _)
RECURSIVE parse_where_clause(_)
WhereLoop(tokens, i, conditions) ==
    IF ~(i < Len(tokens)) THEN ReduceAnd(conditions)
    ELSE IF ~(i + 2 < Len(tokens)) THEN ReduceAnd(conditions)
    ELSE LET condition == TripleCondition(tokens[i + 1], tokens[i + 2], tokens[i + 3])
             conds2 == Append(conditions, condition)
             i2 == i + 3
         IN IF condition = NoCondition
            THEN [kind |-> "Ok", cond |-> NoCondition]
            ELSE IF ~(i2 < Len(tokens)) THEN ReduceAnd(conds2)
            ELSE IF to_uppercase(tokens[i2 + 1]) = kwAND
                 THEN WhereLoop(tokens, i2 + 1, conds2)
            ELSE IF to_uppercase(tokens[i2 + 1]) = kwOR
                 THEN LET left == conds2[Len(conds2)]
                          right == parse_where_clause(Slice(tokens, i2 + 1, Len(tokens)))
                      IN IF right.kind = "Panic" \/ right.cond = NoCondition
                         THEN [kind |-> "Panic", cond |-> NoCondition]
                         ELSE ReduceAnd(Append(SubSeq(conds2, 1, Len(conds2) - 1),
                                               Combined("Or", left, right.cond)))
            ELSE ReduceAnd(conds2)

parse_where_clause(tokens) ==
    IF tokens = <<>> \/ to_uppercase(tokens[1]) # kwWHERE
    THEN [kind |-> "Ok", cond |-> NoCondition]
    ELSE WhereLoop(tokens, 1, <<>>)

ParseOk(stmt) == [kind |-> "Ok", err |-> "", stmt |-> stmt]

ParseErr(e) == [kind |-> "Err", err |-> e, stmt |-> [tag |-> "None"]]

ParsePanic == [kind |-> "Panic", err |-> "", stmt |-> [tag |-> "None"]]

\* the statement once its WHERE clause is parsed; the unwrap panic passes through
WithCondition(where, stmt) ==
    IF where.kind = "Panic" THEN ParsePanic
    ELSE ParseOk([stmt EXCEPT !.condition = where.cond])

TrimAll(tokens) == [i \in 1..Len(tokens) |-> trim_matches(tokens[i])]

parse_select(tokens) ==
    LET from_index == position(tokens, kwFROM) IN
    IF from_index = -1 THEN ParseErr("ParseError")
    ELSE IF ~(from_index + 1 < Len(tokens)) THEN ParsePanic
    ELSE IF ~(1 <= from_index) THEN ParsePanic
    ELSE WithCondition(
            parse_where_clause(Slice(tokens, from_index + 2, Len(tokens))),
            [tag |-> "Select", table |-> tokens[from_index + 2],
             columns |-> Slice(tokens, 1, from_index), condition |-> NoCondition])

parse_insert(tokens) ==
    LET into_index == position(tokens, kwINTO)
        values_index == position(tokens, kwVALUES)
    IN IF into_index = -1 \/ values_index = -1 THEN ParseErr("ParseError")
       ELSE IF ~(into_index + 1 < Len(tokens)) THEN ParsePanic
       ELSE IF ~(into_index + 2 <= values_index) THEN ParsePanic
       ELSE ParseOk([tag |-> "Insert", table |-> tokens[into_index + 2],
                     columns |-> TrimAll(Slice(tokens, into_index + 2, values_index)),
                     values |-> TrimAll(Slice(tokens, values_index + 1, Len(tokens)))])

parse_update(tokens) ==
    LET set_index == position(tokens, kwSET) IN
    IF set_index = -1 THEN ParseErr("ParseError")
    ELSE IF ~(1 < Len(tokens)) THEN ParsePanic
    ELSE IF ~(set_index + 3 < Len(tokens)) THEN ParsePanic
    ELSE WithCondition(
            parse_where_clause(Slice(tokens, set_index + 4, Len(tokens))),
            [tag |-> "Update", table |-> tokens[2],
             column |-> tokens[set_index + 2], value |-> tokens[set_index + 4],
             condition |-> NoCondition])

parse_delete(tokens) ==
    LET from_index == position(tokens, kwFROM) IN
    IF from_index = -1 THEN ParseErr("ParseError")
    ELSE IF ~(from_index + 1 < Len(tokens)) THEN ParsePanic
    ELSE WithCondition(
            parse_where_clause(Slice(tokens, from_index + 2, Len(tokens))),
            [tag |-> "Delete", table |-> tokens[from_index + 2],
             condition |-> NoCondition])

\* tokens[0] panics on a text without tokens
parse_sql(sql) ==
    LET tokens == split_whitespace(sql) IN
    IF tokens = <<>> THEN ParsePanic
    ELSE LET verb == to_uppercase(tokens[1]) IN
         CASE verb = kwSELECT -> parse_select(tokens)
           [] verb = kwINSERT -> parse_insert(tokens)
           [] verb = kwUPDATE -> parse_update(tokens)
           [] verb = kwDELETE -> parse_delete(tokens)
           [] OTHER -> ParseErr("UnsupportedStatement")

-----------------------------------------------------------------------------
(* The execution engine *)

\* table.records.iter().filter(|record| evaluate_condition(record, &condition))
RECURSIVE Matching(_, _)
Matching(records, condition) ==
    IF records = <<>> THEN <<>>
    ELSE (IF evaluate_condition(Head(records), condition) THEN << Head(records) >> ELSE <<>>)
         \o Matching(Tail(records), condition)

Ids(records) == [i \in 1..Len(records) |-> records[i].id]

\* columns.contains(k)
Contains(columns, k) == \E i \in 1..Len(columns) : columns[i] = k

\* record.data.retain(|k, _| columns.contains(k))
Retain(record, columns) ==
    [record EXCEPT !.data = [k \in {c \in DOMAIN @ : Contains(columns, c)} |-> @[k]]]

\* execute_select without the retain of lib.rs:260: every column is returned
execute_select_all_columns(tbls, table, columns, condition) ==
    IF table \notin DOMAIN tbls THEN [tables |-> tbls, result |-> Err("TableNotFound")]
    ELSE IF columns = <<>> THEN [tables |-> tbls, result |-> Panic]
    ELSE [tables |-> tbls, result |-> Ok(Matching(tbls[table].records, condition))]

\* columns[0] panics for an empty column list
execute_select(tbls, table, columns, condition) ==
    IF table \notin DOMAIN tbls THEN [tables |-> tbls, result |-> Err("TableNotFound")]
    ELSE LET records == Matching(tbls[table].records, condition) IN
         IF columns = <<>> THEN [tables |-> tbls, result |-> Panic]
         ELSE IF columns[1] = << "*" >> THEN [tables |-> tbls, result |-> Ok(records)]
         ELSE [tables |-> tbls,
               result |-> Ok([i \in 1..Len(records) |-> Retain(records[i], columns)])]

\* for (column, value) in columns.iter().zip(values.iter()) { data.insert(column, value) }
RECURSIVE ZipInto(_, _, _)
ZipInto(data, columns, values) ==
    IF columns = <<>> \/ values = <<>> THEN data
    ELSE ZipInto(MapInsert(data, Head(columns), Head(values)), Tail(columns), Tail(values))

\* a faulty execute_insert: the index gets the length after the push, which is
\* one past the position of the new record
execute_insert_past_end(tbls, table, columns, values) ==
    IF table \notin DOMAIN tbls THEN [tables |-> tbls, result |-> Err("TableNotFound")]
    ELSE LET t == tbls[table]
             id == Len(t.records) + 1
             record == Record(id, ZipInto(EmptyMap, columns, values))
             records2 == Append(t.records, record)
             t2 == [t EXCEPT !.records = records2,
                             !.index = MapInsert(@, id, Len(records2))]
         IN [tables |-> [tbls EXCEPT ![table] = t2], result |-> Ok(<< record >>)]

execute_insert(tbls, table, columns, values) ==
    IF table \notin DOMAIN tbls THEN [tables |-> tbls, result |-> Err("TableNotFound")]
    ELSE LET t == tbls[table]
             id == Len(t.records) + 1
             record == Record(id, ZipInto(EmptyMap, columns, values))
             records2 == Append(t.records, record)
             t2 == [t EXCEPT !.records = records2,
                             !.index = MapInsert(@, id, Len(records2) - 1)]
         IN [tables |-> [tbls EXCEPT ![table] = t2], result |-> Ok(<< record >>)]

\* The for loop of execute_delete over ids_to_delete, with the table as it is so
\* far and the records deleted so far: [table, deleted, panic].
RECURSIVE DeleteLoop(_, _, _)
DeleteLoop(t, ids, deleted) ==
    IF ids = <<>> THEN [table |-> t, deleted |-> deleted, panic |-> FALSE]
    ELSE LET id == Head(ids) IN
         IF id \in DOMAIN t.index
         THEN LET index == t.index[id]
                  rest == MapRemove(t.index, id)
              IN IF index < Len(t.records)
                 THEN DeleteLoop([t EXCEPT !.records = VecRemove(@, index),
                                           !.index = ShiftIndex(rest, index)],
                                 Tail(ids),
                                 Append(deleted, t.records[index + 1]))
                 ELSE [table |-> [t EXCEPT !.index = rest], deleted |-> deleted,
                       panic |-> TRUE]
         ELSE DeleteLoop(t, Tail(ids), deleted)

execute_delete(tbls, table, condition) ==
    IF table \notin DOMAIN tbls THEN [tables |-> tbls, result |-> Err("TableNotFound")]
    ELSE LET ids_to_delete == Ids(Matching(tbls[table].records, condition))
             done == DeleteLoop(tbls[table], ids_to_delete, <<>>)
         IN [tables |-> [tbls EXCEPT ![table] = done.table],
             result |-> IF done.panic THEN Panic ELSE Ok(done.deleted)]

\* The for loop of execute_update over ids_to_update: [table, updated, panic].
RECURSIVE UpdateLoop(_, _, _, _, _)
UpdateLoop(t, ids, column, value, updated) ==
    IF ids = <<>> THEN [table |-> t, updated |-> updated, panic |-> FALSE]
    ELSE LET id == Head(ids) IN
         IF id \in DOMAIN t.index
         THEN LET index == t.index[id] IN
              IF ~(index < Len(t.records))
              THEN [table |-> t, updated |-> updated, panic |-> TRUE]
              ELSE IF column \in DOMAIN t.records[index + 1].data
              THEN LET t2 == [t EXCEPT !.records[index + 1].data[column] = value]
                   IN UpdateLoop(t2, Tail(ids), column, value,
                                 Append(updated, t2.records[index + 1]))
              ELSE UpdateLoop(t, Tail(ids), column, value, updated)
         ELSE UpdateLoop(t, Tail(ids), column, value, updated)

execute_update(tbls, table, column, value, condition) ==
    IF table \notin DOMAIN tbls THEN [tables |-> tbls, result |-> Err("TableNotFound")]
    ELSE LET ids_to_update == Ids(Matching(tbls[table].records, condition))
             done == UpdateLoop(tbls[table], ids_to_update, column, value, <<>>)
         IN [tables |-> [tbls EXCEPT ![table] = done.table],
             result |-> IF done.panic THEN Panic ELSE Ok(done.updated)]

execute_sql(tbls, sql) ==
    LET parsed == parse_sql(sql)
        statement == parsed.stmt
    IN CASE parsed.kind = "Panic" -> [tables |-> tbls, result |-> Panic]
         [] parsed.kind = "Err" -> [tables |-> tbls, result |-> Err(parsed.err)]
         [] statement.tag = "Select" ->
                execute_select(tbls, statement.table, statement.columns, statement.condition)
         [] statement.tag = "Insert" ->
                execute_insert(tbls, statement.table, statement.columns, statement.values)
         [] statement.tag = "Update" ->
                execute_update(tbls, statement.table, statement.column, statement.value,
                               statement.condition)
         [] statement.tag = "Delete" ->
                execute_delete(tbls, statement.table, statement.condition)

-----------------------------------------------------------------------------
(* The inputs the model offers *)

tblT == << "t" >>
tblU == << "u" >>
colA == << "a" >>
colB == << "b" >>
valX == << "x" >>
valY == << "y" >>
opEq == << "=" >>
opNe == << "!", "=" >>
opGt == << ">" >>
opLt == << "<" >>
star == << "*" >>

\* table names passed to the programmatic interface
TableNames == {tblT, tblU}

\* ids passed to the programmatic interface
IdInputs == 1..MaxId

\* data mappings passed to insert and update
DataInputs == { EmptyMap, colA :> valX }

\* a statement text: the words separated by single spaces
RECURSIVE Text(_)
Text(words) ==
    IF words = <<>> THEN <<>>
    ELSE IF Len(words) = 1 THEN words[1]
    ELSE words[1] \o << " " >> \o Text(Tail(words))

Lower(s) == [i \in 1..Len(s) |->
                IF \E j \in 1..Len(UpperCase) : UpperCase[j] = s[i]
                THEN LowerCase[CHOOSE j \in 1..Len(UpperCase) : UpperCase[j] = s[i]]
                ELSE s[i]]

\* INSERT INTO t (a, b) VALUES (x, y)
InsertSpaced ==
    Text(<< kwINSERT, kwINTO, tblT, << "(", "a", "," >>, << "b", ")" >>,
            kwVALUES, << "(", "x", "," >>, << "y", ")" >> >>)

\* INSERT INTO t (a,b) VALUES (x,y)
InsertPacked ==
    Text(<< kwINSERT, kwINTO, tblT, << "(", "a", ",", "b", ")" >>,
            kwVALUES, << "(", "x", ",", "y", ")" >> >>)

\* insert into u (a) values (x)
InsertLower ==
    Text(<< Lower(kwINSERT), Lower(kwINTO), tblU, << "(", "a", ")" >>,
            Lower(kwVALUES), << "(", "x", ")" >> >>)

SelectAll(t) == Text(<< kwSELECT, star, kwFROM, t >>)

DeleteAll(t) == Text(<< kwDELETE, kwFROM, t >>)

DeleteWhere(t, col, op, val) == Text(<< kwDELETE, kwFROM, t, kwWHERE, col, op, val >>)

InsertStatements == { InsertSpaced, InsertPacked, InsertLower }

\* the comparisons a = x, b = y, a = y as they are written in a WHERE clause
whereAX == << colA, opEq, valX >>
whereBY == << colB, opEq, valY >>
whereAY == << colA, opEq, valY >>

SelectFrom(columns, t) == << kwSELECT >> \o columns \o << kwFROM, t >>

\* SELECT a FROM t WHERE b > a
SelectColumn == Text(SelectFrom(<< colA >>, tblT) \o << kwWHERE, colB, opGt, << "a" >> >>)

\* SELECT a, b FROM t
SelectTwoColumns == Text(SelectFrom(<< << "a", "," >>, colB >>, tblT))

\* SELECT * FROM t WHERE a = x AND b = y
SelectAnd == Text(SelectFrom(<< star >>, tblT) \o << kwWHERE >> \o whereAX \o << kwAND >> \o whereBY)

\* SELECT * FROM t WHERE a = x OR b = y
SelectOr == Text(SelectFrom(<< star >>, tblT) \o << kwWHERE >> \o whereAX \o << kwOR >> \o whereBY)

\* SELECT * FROM t WHERE a = x AND b = y OR a = y
SelectAndOr ==
    Text(SelectFrom(<< star >>, tblT) \o << kwWHERE >> \o whereAX \o << kwAND >> \o whereBY
            \o << kwOR >> \o whereAY)

\* SELECT * FROM t WHERE a = x AND b = y OR WHERE a = y
SelectAndOrWhere ==
    Text(SelectFrom(<< star >>, tblT) \o << kwWHERE >> \o whereAX \o << kwAND >> \o whereBY
            \o << kwOR, kwWHERE >> \o whereAY)

\* SELECT FROM t
SelectNoColumns == Text(<< kwSELECT, kwFROM, tblT >>)

\* SELECT * FROM
SelectNoTable == Text(<< kwSELECT, star, kwFROM >>)

\* SELECT *
SelectNoFrom == Text(<< kwSELECT, star >>)

SelectStatements ==
    { SelectAll(tblT), SelectAll(tblU),
      SelectColumn, SelectTwoColumns, SelectAnd, SelectOr, SelectAndOr, SelectAndOrWhere,
      SelectNoColumns, SelectNoTable, SelectNoFrom }

\* UPDATE t SET a = y
UpdateAll == Text(<< kwUPDATE, tblT, kwSET, colA, opEq, valY >>)

\* UPDATE t SET b = x WHERE a = x
UpdateWhere == Text(<< kwUPDATE, tblT, kwSET, colB, opEq, valX, kwWHERE >> \o whereAX)

\* UPDATE t SET a
UpdateNoValue == Text(<< kwUPDATE, tblT, kwSET, colA >>)

UpdateStatements == { UpdateAll, UpdateWhere, UpdateNoValue }

\* DELETE statements of the documented grammar, without OR
PlainDeletes ==
    { DeleteAll(tblT), DeleteAll(tblU),
      DeleteWhere(tblT, colA, opEq, valX),
      DeleteWhere(tblT, colA, opNe, valX),
      Text(<< kwDELETE, kwFROM, tblT, kwWHERE, colA, opEq, valX, kwAND, colB, opEq, valY >>) }

\* DELETE FROM t WHERE a = x OR b = y
DeleteOr == Text(<< kwDELETE, kwFROM, tblT, kwWHERE >> \o whereAX \o << kwOR >> \o whereBY)

\* DELETE FROM t WHERE a = x OR WHERE b = x
DeleteOrWhere ==
    Text(<< kwDELETE, kwFROM, tblT, kwWHERE >> \o whereAX
            \o << kwOR, kwWHERE, colB, opEq, valX >>)

\* DELETE FROM t WHERE a = x OR
DeleteTrailingOr == Text(<< kwDELETE, kwFROM, tblT, kwWHERE >> \o whereAX \o << kwOR >>)

\* DELETE FROM t WHERE a ~ x
DeleteBadOperator == Text(<< kwDELETE, kwFROM, tblT, kwWHERE, colA, << "~" >>, valX >>)

\* DELETE FROM t WHERE a
DeleteTruncatedWhere == Text(<< kwDELETE, kwFROM, tblT, kwWHERE, colA >>)

DeleteStatements ==
    PlainDeletes \cup
        { DeleteOr, DeleteOrWhere, DeleteTrailingOr, DeleteBadOperator, DeleteTruncatedWhere }

\* the empty text
EmptyText == <<>>

\* DROP t
DropTable == Text(<< << "D", "R", "O", "P" >>, tblT >>)

OtherStatements == { EmptyText, DropTable }

\* the statement texts passed to execute_sql
Statements ==
    InsertStatements \cup SelectStatements \cup UpdateStatements
        \cup DeleteStatements \cup OtherStatements

-----------------------------------------------------------------------------
(* The state machine *)

Call(op, table, id, data, sql) ==
    [op |-> op, table |-> table, id |-> id, data |-> data, sql |-> sql]

RECURSIVE CountRecords(_, _)
CountRecords(tbls, names) ==
    IF names = {} THEN 0
    ELSE LET n == CHOOSE n \in names : TRUE
         IN Len(tbls[n].records) + CountRecords(tbls, names \ {n})

\* the model stops offering a call that would store more than MaxRecords records
Fits(tbls) == CountRecords(tbls, DOMAIN tbls) <= MaxRecords

\* between two calls the caller holds no result
NoCall == Call("none", <<>>, 0, EmptyMap, <<>>)

\* the caller holds no earlier result and makes its next call
Ready == call = NoCall

\* One call of the interface: it leaves the database and the returned value as
\* `out` says.
Step(op, table, id, data, sql, out) ==
    /\ Fits(out.tables)
    /\ tables' = out.tables
    /\ result' = out.result
    /\ call' = Call(op, table, id, data, sql)

\* Database::new()
Init ==
    /\ tables = EmptyMap
    /\ call = Call("new", <<>>, 0, EmptyMap, <<>>)
    /\ result = Ok(<<>>)

\* The caller drops the returned value and goes on to its next call; after a
\* panic there is no next call (the process that owns the database is gone).
Return ==
    /\ call # NoCall
    /\ result.kind # "Panic"
    /\ call' = NoCall
    /\ result' = Ok(<<>>)
    /\ UNCHANGED tables

CreateTable ==
    /\ Ready
    /\ \E name \in TableNames :
          Step("create_table", name, 0, EmptyMap, <<>>, create_table(tables, name))

Insert ==
    /\ Ready
    /\ \E t \in TableNames, id \in IdInputs, data \in DataInputs :
          Step("insert", t, id, data, <<>>, insert(tables, t, id, data))

Get ==
    /\ Ready
    /\ \E t \in TableNames, id \in IdInputs :
          Step("get", t, id, EmptyMap, <<>>, get(tables, t, id))

GetAll ==
    /\ Ready
    /\ \E t \in TableNames :
          Step("get_all", t, 0, EmptyMap, <<>>, get_all(tables, t))

Update ==
    /\ Ready
    /\ \E t \in TableNames, id \in IdInputs, data \in DataInputs :
          Step("update", t, id, data, <<>>, update(tables, t, id, data))

Delete ==
    /\ Ready
    /\ \E t \in TableNames, id \in IdInputs :
          Step("delete", t, id, EmptyMap, <<>>, delete(tables, t, id))

ExecuteSql ==
    /\ Ready
    /\ \E sql \in Statements :
          Step("execute_sql", <<>>, 0, EmptyMap, sql, execute_sql(tables, sql))

Next ==
    \/ CreateTable
    \/ Insert
    \/ Get
    \/ GetAll
    \/ Update
    \/ Delete
    \/ ExecuteSql
    \/ Return

Spec == Init /\ [][Next]_vars

-----------------------------------------------------------------------------
(* Properties *)

IdsOf(records) == {records[i].id : i \in 1..Len(records)}

\* the step is a call of `op`
Called(op) == call'.op = op

\* C1: in every reachable state every table satisfies the index invariant: each
\* indexed id is mapped to the position of a record with that id, and the ids in
\* the index are exactly the ids of the stored records.
IndexInvariant ==
    \A t \in DOMAIN tables :
        LET T == tables[t] IN
        /\ \A id \in DOMAIN T.index :
              /\ T.index[id] < Len(T.records)
              /\ T.records[T.index[id] + 1].id = id
        /\ DOMAIN T.index = IdsOf(T.records)

\* C2: in every reachable state no two records of a table have the same id.
UniqueIds ==
    \A t \in DOMAIN tables :
        \A i, j \in 1..Len(tables[t].records) :
            i # j => tables[t].records[i].id # tables[t].records[j].id

\* C3: insert(table, k, data) on an existing table where k is not indexed
\* succeeds, appends the record as the last element leaving the earlier records
\* where they were, indexes k at the last position, and a following get(table, k)
\* returns the record with id k and the inserted data.
InsertAppends ==
    [][ (/\ Called("insert")
         /\ call'.table \in DOMAIN tables
         /\ call'.id \notin DOMAIN tables[call'.table].index)
        => LET t == call'.table
               k == call'.id
               old == tables[t].records
               new == tables'[t].records
           IN /\ result'.kind = "Ok"
              /\ Len(new) = Len(old) + 1
              /\ \A i \in 1..Len(old) : new[i] = old[i]
              /\ new[Len(new)] = [id |-> k, data |-> call'.data]
              /\ k \in DOMAIN tables'[t].index
              /\ tables'[t].index[k] = Len(new) - 1
              /\ get(tables', t, k).result = Ok(<< [id |-> k, data |-> call'.data] >>)
      ]_vars

\* an insert has succeeded on a table that already held a record
InsertAppendsWitness ==
    /\ call.op = "insert"
    /\ result.kind = "Ok"
    /\ Len(tables[call.table].records) >= 2
    /\ tables[call.table].records[Len(tables[call.table].records)].id = call.id

\* C4: insert(table, k, data) for an id k that is indexed in the table fails with
\* RecordAlreadyExists and leaves that table and every other table unchanged.
InsertExistingRefused ==
    [][ (/\ Called("insert")
         /\ call'.table \in DOMAIN tables
         /\ call'.id \in DOMAIN tables[call'.table].index)
        => /\ result' = Err("RecordAlreadyExists")
           /\ tables' = tables
      ]_vars

\* an insert of an indexed id was refused while a second table existed
InsertExistingRefusedWitness ==
    /\ call.op = "insert"
    /\ result = Err("RecordAlreadyExists")
    /\ call.id \in DOMAIN tables[call.table].index
    /\ Cardinality(DOMAIN tables) = 2

\* C5: after a successful delete(table, k) of the record at position p,
\* get(table, k) reports absence, records is one shorter, the records before p
\* keep their positions, the records after p are one position lower, with their
\* data unchanged, and the index follows them.
DeleteCompacts ==
    [][ (Called("delete") /\ result'.kind = "Ok")
        => LET t == call'.table
               k == call'.id
               old == tables[t]
               new == tables'[t]
               p == old.index[k]
           IN /\ get(tables', t, k).result = Ok(<<>>)
              /\ Len(new.records) = Len(old.records) - 1
              /\ \A i \in 0..(Len(old.records) - 1) :
                    /\ i < p => new.records[i + 1] = old.records[i + 1]
                    /\ i > p => new.records[i] = old.records[i + 1]
              /\ DOMAIN new.index = DOMAIN old.index \ {k}
              /\ \A j \in DOMAIN new.index :
                    new.index[j] = IF old.index[j] > p THEN old.index[j] - 1
                                   ELSE old.index[j]
      ]_vars

\* a delete has succeeded and left an indexed record behind
DeleteCompactsWitness ==
    /\ call.op = "delete"
    /\ result.kind = "Ok"
    /\ Len(tables[call.table].records) >= 1
    /\ DOMAIN tables[call.table].index # {}

\* C6: update(table, id, data) or delete(table, id) on an existing table where id
\* is not indexed fails with RecordNotFound and leaves the database unchanged.
MissingIdRefused ==
    [][ (/\ (Called("update") \/ Called("delete"))
         /\ call'.table \in DOMAIN tables
         /\ call'.id \notin DOMAIN tables[call'.table].index)
        => /\ result' = Err("RecordNotFound")
           /\ tables' = tables
      ]_vars

\* an update or delete of an id that is not indexed was refused on a table that
\* holds records
MissingIdRefusedWitness ==
    /\ call.op \in {"update", "delete"}
    /\ result = Err("RecordNotFound")
    /\ Len(tables[call.table].records) >= 1

\* C7: create_table(name) for an existing name fails with TableAlreadyExists and
\* leaves the table set and the existing table's records and index unchanged.
CreateExistingRefused ==
    [][ (Called("create_table") /\ call'.table \in DOMAIN tables)
        => /\ result' = Err("TableAlreadyExists")
           /\ DOMAIN tables' = DOMAIN tables
           /\ tables' = tables
      ]_vars

\* create_table was refused for a table that holds records
CreateExistingRefusedWitness ==
    /\ call.op = "create_table"
    /\ result = Err("TableAlreadyExists")
    /\ Len(tables[call.table].records) >= 1

\* C8: a successful update(table, id, data) makes the given mapping the whole data
\* of the indexed record with that id and changes nothing else: its id and
\* position, the length and order of records, the index, the other records and
\* the other tables.
UpdateReplacesData ==
    [][ (Called("update") /\ result'.kind = "Ok")
        => LET t == call'.table
               old == tables[t]
               new == tables'[t]
               p == old.index[call'.id]
           IN /\ old.records[p + 1].id = call'.id
              /\ new.records[p + 1] = [id |-> call'.id, data |-> call'.data]
              /\ Len(new.records) = Len(old.records)
              /\ \A i \in 1..Len(old.records) : i # p + 1 => new.records[i] = old.records[i]
              /\ new.index = old.index
              /\ new.name = old.name
              /\ DOMAIN tables' = DOMAIN tables
              /\ \A u \in DOMAIN tables : u # t => tables'[u] = tables[u]
      ]_vars

\* an update has succeeded on a table with other records, with a mapping that
\* lacks column a
UpdateReplacesDataWitness ==
    /\ call.op = "update"
    /\ result.kind = "Ok"
    /\ colA \notin DOMAIN call.data
    /\ Len(tables[call.table].records) >= 2

\* C9: "INSERT INTO t (a,b) VALUES (x,y)" on a freshly created empty table t,
\* followed by "SELECT * FROM t", yields exactly one record, with id 1 and data
\* {a: x, b: y}.
PackedInsertPairsColumns ==
    [][ (/\ Called("execute_sql")
         /\ call'.sql = InsertPacked
         /\ tblT \in DOMAIN tables
         /\ tables[tblT] = NewTable(tblT))
        => /\ result'.kind = "Ok"
           /\ execute_sql(tables', SelectAll(tblT)).result
                 = Ok(<< [id |-> 1, data |-> (colA :> valX) @@ (colB :> valY)] >>)
      ]_vars

\* C10: a text DELETE with (optional) condition c removes exactly the records
\* that satisfied c and returns them in storage order; every record that did not
\* satisfy c remains stored unchanged; afterwards no stored record satisfies c,
\* and with no WHERE clause records and index are both empty.
DeleteRemovesMatching ==
    [][ (/\ Called("execute_sql")
         /\ call'.sql \in PlainDeletes
         /\ parse_sql(call'.sql).stmt.table \in DOMAIN tables)
        => LET statement == parse_sql(call'.sql).stmt
               c == statement.condition
               old == tables[statement.table].records
               new == tables'[statement.table]
           IN /\ result' = Ok(Matching(old, c))
              /\ Len(new.records) = Len(old) - Len(Matching(old, c))
              /\ \A i \in 1..Len(old) :
                    ~evaluate_condition(old[i], c)
                        => \E j \in 1..Len(new.records) : new.records[j] = old[i]
              /\ \A j \in 1..Len(new.records) : ~evaluate_condition(new.records[j], c)
              /\ c = NoCondition => new.records = <<>> /\ new.index = EmptyMap
      ]_vars

\* the elements of a sequence, as a set
Range(seq) == {seq[i] : i \in 1..Len(seq)}

\* C11: a text UPDATE t SET col = val with (optional) condition c modifies exactly
\* the records that satisfy c and have column col: in each only col changes, to
\* val; every other record is left as it was; the returned records are exactly
\* the modified ones; ids, record order and index are unchanged.
UpdateModifiesMatching ==
    [][ (/\ Called("execute_sql")
         /\ call'.sql \in {UpdateAll, UpdateWhere}
         /\ tblT \in DOMAIN tables)
        => LET statement == parse_sql(call'.sql).stmt
               col == statement.column
               old == tables[tblT]
               new == tables'[tblT]
               Hit(r) == evaluate_condition(r, statement.condition) /\ col \in DOMAIN r.data
               Changed(r) == [r EXCEPT !.data[col] = statement.value]
               hits == {i \in 1..Len(old.records) : Hit(old.records[i])}
           IN /\ result'.kind = "Ok"
              /\ Len(new.records) = Len(old.records)
              /\ \A i \in 1..Len(old.records) :
                    new.records[i] = IF i \in hits THEN Changed(old.records[i])
                                     ELSE old.records[i]
              /\ Range(result'.value) = {Changed(old.records[i]) : i \in hits}
              /\ Len(result'.value) = Cardinality(hits)
              /\ new.index = old.index
      ]_vars

\* the SELECT statements offered, with the columns each one requests (the tokens
\* between SELECT and FROM) and the condition it states
SelectCases ==
    { [sql |-> SelectAll(tblT), table |-> tblT, all |-> TRUE, columns |-> {},
       condition |-> NoCondition],
      [sql |-> SelectAll(tblU), table |-> tblU, all |-> TRUE, columns |-> {},
       condition |-> NoCondition],
      [sql |-> SelectColumn, table |-> tblT, all |-> FALSE, columns |-> {colA},
       condition |-> Comparison("GreaterThan", colB, << "a" >>)],
      [sql |-> SelectTwoColumns, table |-> tblT, all |-> FALSE,
       columns |-> {<< "a", "," >>, colB}, condition |-> NoCondition],
      [sql |-> SelectAnd, table |-> tblT, all |-> TRUE, columns |-> {},
       condition |-> Combined("And", Comparison("Equals", colA, valX),
                                     Comparison("Equals", colB, valY))] }

\* the record a SELECT returns for a stored record
Projected(record, case) ==
    IF case.all THEN record
    ELSE [id |-> record.id,
          data |-> [k \in DOMAIN record.data \cap case.columns |-> record.data[k]]]

Holds(record, col, val) == col \in DOMAIN record.data /\ record.data[col] = val

\* C13: through the text interface WHERE a = x AND b = y completes and matches
\* only the records where both comparisons hold, and WHERE a = x OR b = y
\* completes and matches exactly the records where at least one holds.
TextAndOrMatch ==
    [][ (Called("execute_sql") /\ tblT \in DOMAIN tables)
        => LET stored == Range(tables[tblT].records) IN
           /\ call'.sql = SelectAnd
                 => /\ result'.kind = "Ok"
                    /\ Range(result'.value) =
                          {r \in stored : Holds(r, colA, valX) /\ Holds(r, colB, valY)}
           /\ call'.sql = SelectOr
                 => /\ result'.kind = "Ok"
                    /\ Range(result'.value) =
                          {r \in stored : Holds(r, colA, valX) \/ Holds(r, colB, valY)}
      ]_vars

\* statement texts that are malformed or truncated
Malformed ==
    { EmptyText, SelectNoColumns, SelectNoTable, SelectNoFrom, UpdateNoValue,
      DeleteTruncatedWhere, DeleteTrailingOr }

\* C14: execute_sql returns a record list or an error value for every statement
\* text and never panics; a malformed or truncated statement returns a
\* ParseError and leaves the database unchanged.
ExecuteSqlNeverPanics ==
    [][ Called("execute_sql")
        => /\ result'.kind \in {"Ok", "Err"}
           /\ call'.sql \in Malformed
                 => /\ result' = Err("ParseError")
                    /\ tables' = tables
      ]_vars

\* well-formed statements of the four kinds that name table t
WellFormedOnT ==
    { SelectAll(tblT), SelectColumn, SelectAnd, SelectOr,
      InsertSpaced, InsertPacked,
      UpdateAll, UpdateWhere,
      DeleteAll(tblT), DeleteWhere(tblT, colA, opEq, valX), DeleteOr }

\* C15: a well-formed SELECT, INSERT, UPDATE or DELETE that names a table not
\* present fails with TableNotFound, creates no table and leaves every existing
\* table unchanged.
MissingTableRefused ==
    [][ (/\ Called("execute_sql")
         /\ call'.sql \in WellFormedOnT
         /\ tblT \notin DOMAIN tables)
        => /\ result' = Err("TableNotFound")
           /\ tables' = tables
      ]_vars

\* C17: in WHERE A AND B OR C the folded AND-chain is the left operand of the Or
\* node and the parse of the remaining tokens its right operand: the condition is
\* Or(And(A, B), C), so a record satisfying only C matches.
OrTakesFoldedAndChain ==
    [][ (/\ Called("execute_sql")
         /\ call'.sql \in {SelectAndOr, SelectAndOrWhere}
         /\ tblT \in DOMAIN tables)
        => /\ result'.kind = "Ok"
           /\ Range(result'.value) =
                 {r \in Range(tables[tblT].records) :
                     \/ Holds(r, colA, valX) /\ Holds(r, colB, valY)
                     \/ Holds(r, colA, valY)}
      ]_vars

-----------------------------------------------------------------------------
(* evaluate_condition on its own: one record and one condition per behaviour *)

colAge == << "a", "g", "e" >>
val3 == << "3" >>
val9 == << "9" >>
val30 == << "3", "0" >>

\* records with and without column age and column b
EvalRecords ==
    { Record(1, EmptyMap), Record(1, colB :> valX) }
        \cup { Record(1, colAge :> v) : v \in {val3, val9, val30} }
        \cup { Record(1, (colAge :> v) @@ (colB :> valX)) : v \in {val3, val9, val30} }

LeafTags == {"Equals", "NotEquals", "GreaterThan", "LessThan"}

EvalLeaves ==
    { Comparison(tag, colAge, v) : tag \in LeafTags, v \in {val9, val30} }
        \cup { Comparison(tag, colB, valX) : tag \in LeafTags }

\* no condition, one comparison, or an And / Or of two comparisons
EvalConditions ==
    { NoCondition } \cup EvalLeaves
        \cup { Combined(tag, l, r) : tag \in {"And", "Or"}, l \in EvalLeaves, r \in EvalLeaves }

EvalInit ==
    /\ tables = EmptyMap
    /\ result = Ok(<<>>)
    /\ call \in { [op |-> "pending", record |-> r, condition |-> c] :
                    r \in EvalRecords, c \in EvalConditions }

\* self.evaluate_condition(record, &condition)
Evaluate ==
    /\ call.op = "pending"
    /\ call' = [call EXCEPT !.op = "evaluate_condition"]
    /\ result' = Ok(evaluate_condition(call.record, call.condition))
    /\ UNCHANGED tables

EvalNext == Evaluate

EvalSpec == EvalInit /\ [][EvalNext]_vars

\* s is before t in the lexicographic order of the code points: at the first
\* position where they differ s has the smaller character, or s is a proper
\* prefix of t
LexLess(s, t) ==
    \E k \in 0..Len(s) :
       /\ k <= Len(t)
       /\ \A j \in 1..k : s[j] = t[j]
       /\ \/ k = Len(s) /\ k < Len(t)
          \/ k < Len(s) /\ k < Len(t) /\ CharCode(s[k + 1]) < CharCode(t[k + 1])

\* what one comparison says of a record under the missing-column policy
ComparisonHolds(record, c) ==
    LET present == c.col \in DOMAIN record.data IN
    CASE c.tag = "Equals" -> present /\ record.data[c.col] = c.val
      [] c.tag = "NotEquals" -> ~present \/ record.data[c.col] # c.val
      [] c.tag = "GreaterThan" -> present /\ LexLess(c.val, record.data[c.col])
      [] c.tag = "LessThan" -> present /\ LexLess(record.data[c.col], c.val)

\* C16: Equals, GreaterThan and LessThan are false on an absent column and
\* NotEquals is true on it; GreaterThan and LessThan compare strings
\* lexicographically, so age > "30" matches age "9" and not age "30"; And and Or
\* are the boolean combinations; an absent condition matches every record.
EvaluationPolicy ==
    call.op = "evaluate_condition"
    => LET record == call.record
           c == call.condition
           matches == result.value
       IN /\ c.tag = "None" => matches
          /\ c.tag \in LeafTags => (matches <=> ComparisonHolds(record, c))
          /\ c.tag = "And"
                => (matches <=> ComparisonHolds(record, c.left)
                                  /\ ComparisonHolds(record, c.right))
          /\ c.tag = "Or"
                => (matches <=> ComparisonHolds(record, c.left)
                                  \/ ComparisonHolds(record, c.right))
          /\ (c = Comparison("GreaterThan", colAge, val30) /\ colAge \in DOMAIN record.data)
                => /\ record.data[colAge] = val9 => matches
                   /\ record.data[colAge] = val30 => ~matches

\* age > "30" has been evaluated on a record with age "9" and matched
EvaluationPolicyWitness ==
    /\ call.op = "evaluate_condition"
    /\ call.condition = Comparison("GreaterThan", colAge, val30)
    /\ call.record.data = (colAge :> val9)
    /\ result.value = TRUE

-----------------------------------------------------------------------------
(* Order of the stored records *)

\* `new` is `old` without some of its records, the others in their old order
RECURSIVE Subsequence(_, _)
Subsequence(new, old) ==
    IF new = <<>> THEN TRUE
    ELSE IF old = <<>> THEN FALSE
    ELSE IF Head(new) = Head(old) THEN Subsequence(Tail(new), Tail(old))
    ELSE Subsequence(new, Tail(old))

\* the call is an INSERT statement that returned its record
TextInserted == Called("execute_sql") /\ call'.sql \in InsertStatements /\ result'.kind = "Ok"

\* C18: get_all returns the stored records in insertion order, without any
\* deleted record: get_all returns the stored sequence; an insert puts its record
\* after every stored one; a delete takes records out and keeps the others in
\* their order; no other call adds, removes or moves a record.
GetAllInsertionOrder ==
    [][ \A t \in DOMAIN tables :
          /\ t \in DOMAIN tables'
          /\ LET old == tables[t].records
                 new == tables'[t].records
             IN /\ (Called("get_all") /\ call'.table = t)
                      => result' = Ok(old) /\ new = old
                /\ (Called("insert") /\ call'.table = t /\ result'.kind = "Ok")
                      => new = Append(old, Record(call'.id, call'.data))
                /\ (Called("delete") /\ call'.table = t /\ result'.kind = "Ok")
                      => /\ Len(new) = Len(old) - 1
                         /\ \E p \in 1..Len(old) :
                               /\ old[p].id = call'.id
                               /\ new = SubSeq(old, 1, p - 1) \o SubSeq(old, p + 1, Len(old))
                /\ (TextInserted /\ Len(new) # Len(old))
                      => new = Append(old, result'.value[1])
                /\ \/ new = old
                   \/ IF Len(new) > Len(old)
                      THEN /\ TextInserted \/ (Called("insert") /\ call'.table = t)
                           /\ SubSeq(new, 1, Len(old)) = old
                           /\ Len(new) = Len(old) + 1
                      ELSE Subsequence(Ids(new), Ids(old))
      ]_vars

\* get_all has returned two records, the one inserted first with the larger id
GetAllInsertionOrderWitness ==
    /\ call.op = "get_all"
    /\ result.kind = "Ok"
    /\ Len(result.value) = 2
    /\ result.value[1].id > result.value[2].id
    /\ result.value = tables[call.table].records

-----------------------------------------------------------------------------
(* Positions held by the index *)

\* UPDATE and DELETE statements that the parser accepts
ParsedUpdatesAndDeletes ==
    { UpdateAll, UpdateWhere } \cup PlainDeletes
        \cup { DeleteOrWhere, DeleteBadOperator, DeleteTruncatedWhere }

\* C19: in every reachable state, the states after a text INSERT whose id
\* collides included, every position in a table's index is below records.len(),
\* distinct ids have distinct positions and the index is no larger than the
\* records; get, update, delete and text UPDATE / DELETE never index the records
\* out of bounds.
IndexPositionsInBounds ==
    /\ \A t \in DOMAIN tables :
          LET index == tables[t].index
              len == Len(tables[t].records)
          IN /\ \A id \in DOMAIN index : index[id] >= 0 /\ index[id] < len
             /\ \A i, j \in DOMAIN index : i # j => index[i] # index[j]
             /\ Cardinality(DOMAIN index) <= len
    /\ call.op \in {"get", "update", "delete"} => result.kind # "Panic"
    /\ (call.op = "execute_sql" /\ call.sql \in ParsedUpdatesAndDeletes)
          => result.kind # "Panic"

\* a text INSERT has taken an id that was stored: two records, one index entry
IndexPositionsInBoundsWitness ==
    /\ call.op = "execute_sql"
    /\ call.sql \in InsertStatements
    /\ result.kind = "Ok"
    /\ \E t \in DOMAIN tables :
          /\ Len(tables[t].records) = 2
          /\ tables[t].records[1].id = tables[t].records[2].id
          /\ Cardinality(DOMAIN tables[t].index) = 1

-----------------------------------------------------------------------------
(* The interface without text INSERT *)

\* execute_sql with a SELECT, UPDATE, DELETE or malformed statement
ExecuteSqlNoInsert ==
    /\ Ready
    /\ \E sql \in Statements \ InsertStatements :
          Step("execute_sql", <<>>, 0, EmptyMap, sql, execute_sql(tables, sql))

NextNoTextInsert ==
    \/ CreateTable
    \/ Insert
    \/ Get
    \/ GetAll
    \/ Update
    \/ Delete
    \/ ExecuteSqlNoInsert
    \/ Return

SpecNoTextInsert == Init /\ [][NextNoTextInsert]_vars

\* C20: when no text INSERT is executed, every reachable table has unique record
\* ids, as many index entries as records and records[index[id]].id = id for
\* every indexed id; so every record returned by get_all is returned by get of
\* its own id.
ConsistentWithoutTextInsert ==
    /\ \A t \in DOMAIN tables :
          LET records == tables[t].records
              index == tables[t].index
          IN /\ \A i, j \in 1..Len(records) : records[i].id = records[j].id => i = j
             /\ Cardinality(DOMAIN index) = Len(records)
             /\ \A id \in DOMAIN index :
                   /\ index[id] + 1 \in 1..Len(records)
                   /\ records[index[id] + 1].id = id
    /\ (call.op = "get_all" /\ result.kind = "Ok")
          => \A k \in 1..Len(result.value) :
                get(tables, call.table, result.value[k].id).result = Ok(<< result.value[k] >>)

\* get_all has returned the records left by a programmatic insert and a text
\* UPDATE, and get returns each of them
ConsistentWithoutTextInsertWitness ==
    /\ call.op = "get_all"
    /\ result.kind = "Ok"
    /\ Len(result.value) = 2
    /\ \E k \in 1..2 : Holds(result.value[k], colA, valY)
    /\ \A k \in 1..2 :
          get(tables, call.table, result.value[k].id).result = Ok(<< result.value[k] >>)

====
